---- MODULE Spec2Model ----
(***************************************************************************)
(* Model of rust-remote-shell: the Device-server listener                  *)
(* (device_server.rs: accept loop, per-connection pipeline, error-channel  *)
(* supervisor) and the Host relay (sender_client.rs: intake task,          *)
(* read_write task, supervisor and final drain).                           *)
(*                                                                         *)
(* Tasks are tokio tasks.  Every `.await` of the source is a suspension    *)
(* point: one action is the code that runs from one suspension point to    *)
(* the next.  JoinHandle::abort sets a flag; the task is torn down at a    *)
(* suspension point (the Cancel actions), and may still run the code up to *)
(* its next suspension point when the awaited operation was ready.         *)
(***************************************************************************)
EXTENDS Integers, Sequences, FiniteSets, TLC

\* ------------------------------------------------------------------ bounds
\* Number of frames the Device sends to the Host relay in one run.
MaxHostFrames == 2
\* Number of TCP connections the listener can accept in one run.
MaxConns == 2
\* Number of items (frames, transport errors, ends of stream) that the
\* inbound streams of all connections yield in one run.
MaxFrames == 2
\* Capacity of the Device-server error channel.
MAX_ERRORS_TO_HANDLE == 10

ConnIds == 1..MaxConns

\* ------------------------------------------------------- bytes and strings
\* A Rust String is its UTF-8 bytes: String::from_utf8 validates a byte
\* vector and keeps it, as_bytes hands the same bytes back.

RECURSIVE ContinuationOk(_, _, _)
\* bytes b[i..i+n-1] all exist and are continuation bytes 0x80..0xBF
ContinuationOk(b, i, n) ==
    IF n = 0 THEN TRUE
    ELSE /\ i <= Len(b)
         /\ b[i] >= 128 /\ b[i] <= 191
         /\ ContinuationOk(b, i + 1, n - 1)

RECURSIVE Utf8From(_, _)
\* core::str::from_utf8 validation of b[i..]
Utf8From(b, i) ==
    IF i > Len(b) THEN TRUE
    ELSE LET x == b[i] IN
         IF x < 128 THEN Utf8From(b, i + 1)
         ELSE IF x >= 194 /\ x <= 223
              THEN ContinuationOk(b, i + 1, 1) /\ Utf8From(b, i + 2)
         ELSE IF x >= 224 /\ x <= 239
              THEN /\ ContinuationOk(b, i + 1, 2)
                   /\ (x = 224 => b[i + 1] >= 160)
                   /\ (x = 237 => b[i + 1] <= 159)
                   /\ Utf8From(b, i + 3)
         ELSE IF x >= 240 /\ x <= 244
              THEN /\ ContinuationOk(b, i + 1, 3)
                   /\ (x = 240 => b[i + 1] >= 144)
                   /\ (x = 244 => b[i + 1] <= 143)
                   /\ Utf8From(b, i + 4)
         ELSE FALSE

IsUtf8(b) == Utf8From(b, 1)

\* "Shell error: " as bytes
ShellErrorPrefix == <<83, 104, 101, 108, 108, 32, 101, 114, 114, 111, 114, 58, 32>>

StartsWith(s, p) == Len(s) >= Len(p) /\ SubSeq(s, 1, Len(p)) = p

\* ----------------------------------------------------------- environment
\* Payloads a peer may put in a Binary frame: "ls", "é" (valid UTF-8),
\* 0xFF and a truncated two-byte sequence (not UTF-8).
Payloads == { <<108, 115>>, <<195, 169>>, <<255>>, <<195>> }

\* What the inbound stream yields at one poll: a frame, a transport error,
\* or the end of the stream.
InboundItems ==
    [kind : {"Binary"}, data : Payloads]
      \cup { [kind |-> "Close", data |-> <<>>],
             [kind |-> "Ping", data |-> <<>>],
             [kind |-> "ErrReset", data |-> <<>>],
             [kind |-> "ErrIo", data |-> <<>>],
             [kind |-> "End", data |-> <<>>] }

\* CommandHandler::execute(cmd): the shell collaborator, a function from the
\* command string to its output or to a ShellError.  Here "ls" succeeds and
\* its output is the command followed by a newline (so that an output
\* identifies its command), and any other command fails with a ShellError
\* whose Display text is "sh".
Execute(cmd) ==
    IF cmd = <<108, 115>>
    THEN { [ok |-> TRUE, s |-> cmd \o <<10>>] }
    ELSE { [ok |-> FALSE, s |-> <<115, 104>>] }

\* ------------------------------------------------------------------ state
VARIABLES
    acceptorPc,     \* accept-loop task: "accept" | "tls" | "push" | "ended" | "panicked" | "cancelled"
    acceptorAbort,  \* handle_connections.abort() has been called
    acceptorCur,    \* connection the accept loop is working on (0: none)
    nextConn,       \* connections accepted so far
    conn,           \* per-connection task state
    handles,        \* registry: Vec<JoinHandle> behind the Mutex
    errChan,        \* messages buffered in the error channel
    rxOpen,         \* rx_err not yet dropped
    sentLog,        \* every error ever accepted by the error channel, in order
    listenPc,       \* listen(): "recv" | "join" | "sweep" | "returned"
    err,            \* the error bound by `if let Some(err) = rx_err.recv()`
    listenResult,   \* what listen() returned ("none" while running)
    handshakeFailed,\* connections whose TLS or WebSocket handshake failed
    \* Host relay (SenderClient::connect)
    supPc,          \* connect()/close(): "recv" | "join_rw" | "join_in" | "lock" | "write" | "flush" | "returned" | "panicked"
    first,          \* the first message taken from rx_err
    connectResult,  \* what connect() returned
    supHeld,        \* frame popped by the final drain and not yet written (0: none)
    rwPc,           \* read_write task: "stdin" | "notify" | "send" | "lock" | "write" | "flush" | "failed" | "cancelled"
    rwAbort,        \* handle_std_in_out.abort() has been called
    rwHeld,         \* frame popped by the inline drain and not yet written (0: none)
    rwErr,          \* the error read_write returned
    inPc,           \* intake task: "read" | "report" | "ended" | "cancelled" | "panicked"
    inAbort,        \* handle_read.abort() has been called
    inErr,          \* the error the intake task reports
    outQueue,       \* Output Queue: the unbounded channel tx_cmd_out -> rx_cmd_out
    rxLock,         \* holder of the Mutex around rx_cmd_out: "none" | "rw" | "sup"
    hostErrChan,    \* messages buffered in the capacity-1 channel tx_err -> rx_err
    stdout,         \* payloads written to standard output, in order
    pushed,         \* every frame the intake task pushed, in order
    \* client_tls_config (tls.rs)
    caCertFile,     \* the argument: no file, or a file and what reading it gives
    cfgPc,          \* "start" | "loop" | "roots" | "done" | "panicked"
    cfgPos,         \* index of the item the loop is at
    rootCerts,      \* root_certs: what has been added to the RootCertStore
    cfgResult,      \* what client_tls_config returned ("none" while running)
    \* TlsService (tls.rs)
    tlsReq,         \* per request: the future returned by call()
    service,        \* self.service: 0 is the layered service, k its k-th clone
    serviceReady,   \* poll_ready returned Ready(Ok) for self.service
    innerCalls      \* every call of the inner service, in order

svars == <<acceptorPc, acceptorAbort, acceptorCur, nextConn, conn, handles,
           errChan, rxOpen, sentLog, listenPc, err, listenResult,
           handshakeFailed>>

hvars == <<supPc, first, connectResult, supHeld, rwPc, rwAbort, rwHeld, rwErr,
           inPc, inAbort, inErr, outQueue, rxLock, hostErrChan, stdout, pushed>>

cfgvars == <<caCertFile, cfgPc, cfgPos, rootCerts, cfgResult>>

svcvars == <<tlsReq, service, serviceReady, innerCalls>>

tlsvars == <<cfgvars, svcvars>>

vars == <<svars, hvars, tlsvars>>

NoErr == [c |-> 0, e |-> "none"]

IdleConn ==
    [pc |-> "idle", abort |-> FALSE, cmd |-> <<>>, out |-> <<>>,
     inLog |-> <<>>, execLog |-> <<>>, sent |-> <<>>, res |-> "none"]

AcceptorLive == {"accept", "tls", "push"}
AcceptorOver == {"ended", "panicked", "cancelled"}
\* connection task positions: suspended in accept_async, in the inbound
\* read, in execute, in the sink, in tx_err.send
ConnLive == {"handshake", "read", "exec", "send", "report"}
ConnOver == {"done", "cancelled", "panicked"}

ServerInit ==
    /\ acceptorPc = "accept"
    /\ acceptorAbort = FALSE
    /\ acceptorCur = 0
    /\ nextConn = 0
    /\ conn = [c \in ConnIds |-> IdleConn]
    /\ handles = <<>>
    /\ errChan = <<>>
    /\ rxOpen = TRUE
    /\ sentLog = <<>>
    /\ listenPc = "recv"
    /\ err = NoErr
    /\ listenResult = [ok |-> TRUE, err |-> NoErr]
    /\ handshakeFailed = {}

\* connect() has split the stream, created both channels and spawned the
\* two tasks; it waits in rx_err.recv().
HostInit ==
    /\ supPc = "recv"
    /\ first = "none"
    /\ connectResult = "none"
    /\ supHeld = 0
    /\ rwPc = "stdin"
    /\ rwAbort = FALSE
    /\ rwHeld = 0
    /\ rwErr = "none"
    /\ inPc = "read"
    /\ inAbort = FALSE
    /\ inErr = "none"
    /\ outQueue = <<>>
    /\ rxLock = "none"
    /\ hostErrChan = <<>>
    /\ stdout = <<>>
    /\ pushed = <<>>

\* client_tls_config has not been called with anything but None.
NoCaCertFile == [given |-> FALSE, read |-> "ok", items |-> <<>>]

ConfigStart ==
    /\ cfgPc = "start"
    /\ cfgPos = 0
    /\ rootCerts = <<>>
    /\ cfgResult = "none"

\* Number of requests (raw streams) handed to TlsService::call in one run.
MaxRequests == 3

Requests == 1..MaxRequests

\* A request on which call() has not been invoked yet.
IdleRequest == [pc |-> "idle", inner |-> 0, hs |-> "none", result |-> "none"]

\* TlsLayer::layer has built the TlsService around the inner service.
ServiceStart ==
    /\ tlsReq = [r \in Requests |-> IdleRequest]
    /\ service = 0
    /\ serviceReady = FALSE
    /\ innerCalls = <<>>

Init ==
    /\ ServerInit /\ HostInit
    /\ caCertFile = NoCaCertFile /\ ConfigStart
    /\ ServiceStart

\* ------------------------------------------------- Device-server: accept loop
\* `while let Ok((stream, _)) = listener.accept().await`: a new connection,
\* or an accept error that ends the loop (and drops the task's tx_err).
AcceptorAccept ==
    /\ acceptorPc = "accept"
    /\ \/ /\ nextConn < MaxConns
          /\ nextConn' = nextConn + 1
          /\ acceptorCur' = nextConn + 1
          /\ acceptorPc' = "tls"
       \/ /\ acceptorPc' = "ended"
          /\ UNCHANGED <<nextConn, acceptorCur>>
    /\ UNCHANGED <<acceptorAbort, conn, handles, errChan, rxOpen, sentLog,
                   listenPc, err, listenResult, handshakeFailed>>
    /\ UNCHANGED <<hvars, tlsvars>>

\* The registry after `handles_clone.lock().await.push(handle)`.
PushHandle(h, c) == Append(h, c)

\* `acceptor_clone.accept(stream).await.expect("expected TLS stream")` and,
\* on success, `tokio::spawn(Self::handle_connection(stream, tx_err.clone()))`.
\* A failed handshake panics the accept-loop task.
AcceptorTls ==
    /\ acceptorPc = "tls"
    /\ \/ /\ conn' = [conn EXCEPT ![acceptorCur].pc = "handshake"]
          /\ acceptorPc' = "push"
          /\ UNCHANGED <<acceptorCur, handshakeFailed>>
       \/ /\ acceptorPc' = "panicked"
          /\ acceptorCur' = 0
          /\ handshakeFailed' = handshakeFailed \cup {acceptorCur}
          /\ UNCHANGED conn
    /\ UNCHANGED <<acceptorAbort, nextConn, handles, errChan, rxOpen, sentLog,
                   listenPc, err, listenResult>>
    /\ UNCHANGED <<hvars, tlsvars>>

\* `handles_clone.lock().await.push(handle_single_connection)`: the lock is
\* acquired and the handle is stored.
AcceptorPush ==
    /\ acceptorPc = "push"
    /\ handles' = PushHandle(handles, acceptorCur)
    /\ acceptorCur' = 0
    /\ acceptorPc' = "accept"
    /\ UNCHANGED <<acceptorAbort, nextConn, conn, errChan, rxOpen, sentLog,
                   listenPc, err, listenResult, handshakeFailed>>
    /\ UNCHANGED <<hvars, tlsvars>>

\* The aborted accept-loop task is dropped at a suspension point
\* (listener.accept, the TLS handshake, handles.lock).  A JoinHandle it
\* holds and has not yet pushed is dropped, which detaches that task.
AcceptorCancel ==
    /\ acceptorAbort
    /\ acceptorPc \in AcceptorLive
    /\ acceptorPc' = "cancelled"
    /\ acceptorCur' = 0
    /\ UNCHANGED <<acceptorAbort, nextConn, conn, handles, errChan, rxOpen,
                   sentLog, listenPc, err, listenResult, handshakeFailed>>
    /\ UNCHANGED <<hvars, tlsvars>>

\* --------------------------------------- Device-server: connection pipeline
\* (variant: a client's Close is reported like any other error)
NextPcAfterCloseFatal(res) ==
    IF res \in {"Ok", "TransportReset"} THEN "done" ELSE "report"

\* The match of handle_connection on the pipeline's result: Ok and the two
\* benign disconnects end the task, any other error is sent on tx_err.
NextPcAfter(res) ==
    IF res \in {"Ok", "CloseWebsocket", "TransportReset"} THEN "done" ELSE "report"

\* The pipeline of connection c ends with res; handle_connection matches it.
\* (The abort flag of a finished task means nothing and is cleared.)
ConnEnds(c, res) ==
    conn' = [conn EXCEPT ![c].pc = NextPcAfter(res), ![c].res = res,
                         ![c].cmd = <<>>, ![c].out = <<>>,
                         ![c].abort = IF NextPcAfter(res) = "done" THEN FALSE ELSE @]

\* peer_addr() and accept_async(stream).await
ConnHandshake(c) ==
    /\ conn[c].pc = "handshake"
    /\ \/ /\ conn' = [conn EXCEPT ![c].pc = "read"]
          /\ UNCHANGED handshakeFailed
       \/ /\ ConnEnds(c, "PeerAddr")
          /\ UNCHANGED handshakeFailed
       \/ /\ ConnEnds(c, "WebSocketHandshake")
          /\ handshakeFailed' = handshakeFailed \cup {c}
    /\ UNCHANGED <<acceptorPc, acceptorAbort, acceptorCur, nextConn, handles,
                   errChan, rxOpen, sentLog, listenPc, err, listenResult>>
    /\ UNCHANGED <<hvars, tlsvars>>

RECURSIVE FramesRead(_)
\* items the inbound streams of connections 1..n have yielded so far
FramesRead(n) == IF n = 0 THEN 0 ELSE Len(conn[n].inLog) + FramesRead(n - 1)

\* (variant: a frame of any other kind is taken as a command, like Binary)
DecodeFrameAnyKind(msg) ==
    IF msg.kind = "Close" THEN [ok |-> FALSE, v |-> "CloseWebsocket"]
    ELSE IF IsUtf8(msg.data) THEN [ok |-> TRUE, v |-> msg.data]
                             ELSE [ok |-> FALSE, v |-> "Utf8Error"]

\* (variant: a lossy conversion that accepts any bytes as a command)
DecodeFrameLossy(msg) ==
    IF msg.kind = "Binary" THEN [ok |-> TRUE, v |-> msg.data]
    ELSE IF msg.kind = "Close" THEN [ok |-> FALSE, v |-> "CloseWebsocket"]
    ELSE [ok |-> FALSE, v |-> "ReadCommand"]

\* First and_then stage: the inbound message becomes a command string or
\* an error.
DecodeFrame(msg) ==
    IF msg.kind = "Binary"
    THEN IF IsUtf8(msg.data) THEN [ok |-> TRUE, v |-> msg.data]
                             ELSE [ok |-> FALSE, v |-> "Utf8Error"]
    ELSE IF msg.kind = "Close" THEN [ok |-> FALSE, v |-> "CloseWebsocket"]
    ELSE [ok |-> FALSE, v |-> "ReadCommand"]

\* The forward loop polls the inbound stream: a frame is decoded; a
\* transport error or a decode error ends the pipeline; the end of the
\* stream closes the sink (which can fail) and ends the pipeline with Ok.
ConnRead(c) ==
    /\ conn[c].pc = "read"
    /\ FramesRead(MaxConns) < MaxFrames
    /\ \E item \in InboundItems :
         LET logged == Append(conn[c].inLog, item)
             ends(res) ==
                 conn' = [conn EXCEPT ![c].pc = NextPcAfter(res), ![c].res = res,
                                      ![c].inLog = logged,
                                      ![c].abort = IF NextPcAfter(res) = "done"
                                                   THEN FALSE ELSE @]
         IN IF item.kind = "ErrReset" THEN ends("TransportReset")
            ELSE IF item.kind = "ErrIo" THEN ends("TransportIo")
            ELSE IF item.kind = "End"
                 THEN \E r \in {"Ok", "TransportIo", "TransportReset"} : ends(r)
            ELSE LET d == DecodeFrame(item) IN
                 IF d.ok
                 THEN conn' = [conn EXCEPT ![c].pc = "exec", ![c].cmd = d.v,
                                           ![c].inLog = logged]
                 ELSE ends(d.v)
    /\ UNCHANGED <<acceptorPc, acceptorAbort, acceptorCur, nextConn, handles,
                   errChan, rxOpen, sentLog, listenPc, err, listenResult,
                   handshakeFailed>>
    /\ UNCHANGED <<hvars, tlsvars>>

\* (variant: the output is trimmed before it is sent)
RenderOutcomeTrimmed(r) ==
    IF r.ok
    THEN IF r.s # <<>> /\ r.s[Len(r.s)] = 10 THEN SubSeq(r.s, 1, Len(r.s) - 1) ELSE r.s
    ELSE ShellErrorPrefix \o r.s \o <<10>>

\* `execute(cmd).await.unwrap_or_else(|err| format!("Shell error: {}\n", err))`
RenderOutcome(r) ==
    IF r.ok THEN r.s ELSE ShellErrorPrefix \o r.s \o <<10>>

\* (variant: the shell error is propagated with `?`)
ExecStagePropagate(r) ==
    IF r.ok THEN [ok |-> TRUE, v |-> r.s] ELSE [ok |-> FALSE, v |-> "ShellError"]

\* What the second and_then stage yields for the shell's outcome r:
\* always `Ok(Message::Binary(cmd_out.as_bytes().to_vec()))`.
ExecStage(r) == [ok |-> TRUE, v |-> RenderOutcome(r)]

\* Second and_then stage: execute the command; its item goes to forward,
\* an error would end the pipeline.
ConnExec(c) ==
    /\ conn[c].pc = "exec"
    /\ \E r \in Execute(conn[c].cmd) :
         LET st == ExecStage(r)
             logged == Append(conn[c].execLog, [cmd |-> conn[c].cmd, r |-> r])
         IN IF st.ok
            THEN conn' = [conn EXCEPT ![c].pc = "send", ![c].out = st.v,
                                      ![c].cmd = <<>>, ![c].execLog = logged]
            ELSE conn' = [conn EXCEPT ![c].pc = NextPcAfter(st.v), ![c].res = st.v,
                                      ![c].cmd = <<>>, ![c].execLog = logged,
                                      ![c].abort = IF NextPcAfter(st.v) = "done"
                                                   THEN FALSE ELSE @]
    /\ UNCHANGED <<acceptorPc, acceptorAbort, acceptorCur, nextConn, handles,
                   errChan, rxOpen, sentLog, listenPc, err, listenResult,
                   handshakeFailed>>
    /\ UNCHANGED <<hvars, tlsvars>>

\* (variant: the sink puts the newest frame ahead of the older ones)
SinkStartSendFront(sent, out) == <<out>> \o sent

\* `write.start_send(item)`: the frames the sink has taken, in order.
SinkStartSend(sent, out) == Append(sent, out)

\* forward: the buffered message is handed to the sink (poll_ready,
\* start_send), or the sink reports a transport error.
ConnSend(c) ==
    /\ conn[c].pc = "send"
    /\ \/ conn' = [conn EXCEPT ![c].pc = "read", ![c].out = <<>>,
                                ![c].sent = SinkStartSend(@, conn[c].out)]
       \/ \E r \in {"TransportIo", "TransportReset"} : ConnEnds(c, r)
    /\ UNCHANGED <<acceptorPc, acceptorAbort, acceptorCur, nextConn, handles,
                   errChan, rxOpen, sentLog, listenPc, err, listenResult,
                   handshakeFailed>>
    /\ UNCHANGED <<hvars, tlsvars>>

\* `tx_err.send(err).await.expect("Error handler failure")`: the error is
\* queued when the channel has room; the task panics when the receiver
\* has been dropped.
ConnReport(c) ==
    /\ conn[c].pc = "report"
    /\ IF rxOpen
       THEN /\ Len(errChan) < MAX_ERRORS_TO_HANDLE
            /\ errChan' = Append(errChan, [c |-> c, e |-> conn[c].res])
            /\ sentLog' = Append(sentLog, [c |-> c, e |-> conn[c].res])
            /\ conn' = [conn EXCEPT ![c].pc = "done", ![c].abort = FALSE]
       ELSE /\ conn' = [conn EXCEPT ![c].pc = "panicked", ![c].abort = FALSE]
            /\ UNCHANGED <<errChan, sentLog>>
    /\ UNCHANGED <<acceptorPc, acceptorAbort, acceptorCur, nextConn, handles,
                   rxOpen, listenPc, err, listenResult, handshakeFailed>>
    /\ UNCHANGED <<hvars, tlsvars>>

\* An aborted connection task is dropped at a suspension point.
ConnCancel(c) ==
    /\ conn[c].abort
    /\ conn[c].pc \in ConnLive
    /\ conn' = [conn EXCEPT ![c].pc = "cancelled", ![c].cmd = <<>>, ![c].out = <<>>,
                         ![c].abort = FALSE]
    /\ UNCHANGED <<acceptorPc, acceptorAbort, acceptorCur, nextConn, handles,
                   errChan, rxOpen, sentLog, listenPc, err, listenResult,
                   handshakeFailed>>
    /\ UNCHANGED <<hvars, tlsvars>>

\* ------------------------------------------------ Device-server: supervisor
\* (variant: the connection tasks hold no sender of the error channel)
AllSendersDroppedAcceptorOnly == acceptorPc \in AcceptorOver

\* Every sender of the error channel is gone: the accept loop's tx_err and
\* the clone held by each spawned connection task.
AllSendersDropped ==
    /\ acceptorPc \in AcceptorOver
    /\ \A c \in ConnIds : conn[c].pc \in ConnOver \cup {"idle"}

\* `if let Some(err) = rx_err.recv().await` yields the oldest queued error;
\* terminate() starts with handle_connections.abort().
ListenRecv ==
    /\ listenPc = "recv"
    /\ errChan # <<>>
    /\ err' = Head(errChan)
    /\ errChan' = Tail(errChan)
    /\ acceptorAbort' = TRUE
    /\ listenPc' = "join"
    /\ UNCHANGED <<acceptorPc, acceptorCur, nextConn, conn, handles, rxOpen,
                   sentLog, listenResult, handshakeFailed>>
    /\ UNCHANGED <<hvars, tlsvars>>

\* rx_err.recv() yields None once the channel is empty and closed: Ok(()).
ListenRecvClosed ==
    /\ listenPc = "recv"
    /\ errChan = <<>>
    /\ AllSendersDropped
    /\ listenResult' = [ok |-> TRUE, err |-> NoErr]
    /\ listenPc' = "returned"
    /\ rxOpen' = FALSE
    /\ UNCHANGED <<acceptorPc, acceptorAbort, acceptorCur, nextConn, conn,
                   handles, errChan, sentLog, err, handshakeFailed>>
    /\ UNCHANGED <<hvars, tlsvars>>

\* (variant: terminate does not await the accept loop's JoinHandle)
TerminateJoinNoWait ==
    /\ listenPc = "join"
    /\ listenPc' = "sweep"
    /\ UNCHANGED <<acceptorPc, acceptorAbort, acceptorCur, nextConn, conn,
                   handles, errChan, rxOpen, sentLog, err, listenResult,
                   handshakeFailed>>
    /\ UNCHANGED <<hvars, tlsvars>>

\* `match handle_connections.await`: the join completes once the accept
\* loop has been cancelled, has ended or has panicked; every outcome is
\* tolerated.
TerminateJoin ==
    /\ listenPc = "join"
    /\ acceptorPc \in AcceptorOver
    /\ listenPc' = "sweep"
    /\ UNCHANGED <<acceptorPc, acceptorAbort, acceptorCur, nextConn, conn,
                   handles, errChan, rxOpen, sentLog, err, listenResult,
                   handshakeFailed>>
    /\ UNCHANGED <<hvars, tlsvars>>

\* What terminate() returns.
TerminateResult == "Ok"

\* (variant: listen falls through to Ok(()) after terminate)
ListenReturnOk(t, e) == [ok |-> TRUE, err |-> NoErr]

\* `self.terminate(..).await?; return Err(err)`
ListenReturn(t, e) ==
    IF t = "Ok" THEN [ok |-> FALSE, err |-> e]
    ELSE [ok |-> FALSE, err |-> [c |-> 0, e |-> t]]

\* `for h in handles.lock().await.iter() { h.abort(); }` (abort of a task
\* that has finished does nothing), then terminate returns Ok(()) and
\* listen returns Err(err), dropping rx_err.
TerminateSweep ==
    /\ listenPc = "sweep"
    /\ conn' = [c \in ConnIds |->
                  IF /\ \E i \in 1..Len(handles) : handles[i] = c
                     /\ conn[c].pc \in ConnLive
                  THEN [conn[c] EXCEPT !.abort = TRUE]
                  ELSE conn[c]]
    /\ listenResult' = ListenReturn(TerminateResult, err)
    /\ listenPc' = "returned"
    /\ rxOpen' = FALSE
    /\ UNCHANGED <<acceptorPc, acceptorAbort, acceptorCur, nextConn, handles,
                   errChan, sentLog, err, handshakeFailed>>
    /\ UNCHANGED <<hvars, tlsvars>>

ServerNext ==
    \/ AcceptorAccept
    \/ AcceptorTls
    \/ AcceptorPush
    \/ AcceptorCancel
    \/ \E c \in ConnIds : ConnHandshake(c)
    \/ \E c \in ConnIds : ConnRead(c)
    \/ \E c \in ConnIds : ConnExec(c)
    \/ \E c \in ConnIds : ConnSend(c)
    \/ \E c \in ConnIds : ConnReport(c)
    \/ \E c \in ConnIds : ConnCancel(c)
    \/ ListenRecv
    \/ ListenRecvClosed
    \/ TerminateJoin
    \/ TerminateSweep

\* The Device-server alone.
Next == ServerNext

Spec == Init /\ [][Next]_vars

\* ------------------------------------------------------------ Host relay
RwLive == {"stdin", "notify", "send", "lock", "write", "flush"}
RwOver == {"failed", "cancelled", "panicked"}
InLive == {"read", "report"}
InOver == {"ended", "cancelled", "panicked"}
SupOver == {"returned", "panicked"}

\* rx_err is dropped when connect() returns or unwinds.
HostRxOpen == supPc \notin SupOver

\* The capacity of `tokio::sync::mpsc::channel::<Result<..>>(1)`.
HostErrCapacity == 1

\* --- intake task (handle_read)
\* `read.map_err(..).try_for_each(|cmd_out| tx_cmd_out.send(cmd_out))`:
\* a frame is pushed onto the Output Queue; a transport error ends the
\* stream with Err; the end of the stream (the Device closed) ends it with
\* Ok, and then the task returns Ok(()) without sending anything.
InRead ==
    /\ inPc = "read"
    /\ \/ /\ Len(pushed) < MaxHostFrames
          /\ outQueue' = Append(outQueue, Len(pushed) + 1)
          /\ pushed' = Append(pushed, Len(pushed) + 1)
          /\ UNCHANGED <<inPc, inErr>>
       \/ /\ inPc' = "report"
          /\ inErr' = "TungsteniteReadData"
          /\ UNCHANGED <<outQueue, pushed>>
       \/ /\ inPc' = "ended"
          /\ UNCHANGED <<outQueue, pushed, inErr>>
    /\ UNCHANGED <<supPc, first, connectResult, supHeld, rwPc, rwAbort, rwHeld,
                   rwErr, inAbort, rxLock, hostErrChan, stdout>>
    /\ UNCHANGED <<svars, tlsvars>>

\* `tx_err.send(Err(err)).await.expect("channel error")`, then Ok(()).
InReport ==
    /\ inPc = "report"
    /\ IF HostRxOpen
       THEN /\ Len(hostErrChan) < HostErrCapacity
            /\ hostErrChan' = Append(hostErrChan, inErr)
            /\ inPc' = "ended"
       ELSE /\ inPc' = "panicked"
            /\ UNCHANGED hostErrChan
    /\ UNCHANGED <<supPc, first, connectResult, supHeld, rwPc, rwAbort, rwHeld,
                   rwErr, inAbort, inErr, outQueue, rxLock, stdout, pushed>>
    /\ UNCHANGED <<svars, tlsvars>>

\* The aborted intake task is dropped at a suspension point.
InCancel ==
    /\ inAbort
    /\ inPc \in InLive
    /\ inPc' = "cancelled"
    /\ UNCHANGED <<supPc, first, connectResult, supHeld, rwPc, rwAbort, rwHeld,
                   rwErr, inAbort, inErr, outQueue, rxLock, hostErrChan, stdout,
                   pushed>>
    /\ UNCHANGED <<svars, tlsvars>>

\* --- read_write task
\* `iohandler.X().await?` in the loop of read_write: an Err returned by an
\* IOHandler method is returned by the task (nothing is sent on tx_err);
\* otherwise the loop goes on at `next`.
RwAfter(res, next) == IF res = "Ok" THEN next ELSE "failed"

\* IOHandler::read_stdin: one line is read; a read error is returned; at
\* end of input the supervisor is told Ok(()) on tx_err.
RwReadStdin ==
    /\ rwPc = "stdin"
    /\ \/ /\ rwPc' = RwAfter("Ok", "send")
          /\ UNCHANGED rwErr
       \/ /\ rwPc' = "notify"
          /\ UNCHANGED rwErr
       \/ /\ rwPc' = RwAfter("IORead", "send")
          /\ rwErr' = "IORead"
    /\ UNCHANGED <<supPc, first, connectResult, supHeld, rwAbort, rwHeld, inPc,
                   inAbort, inErr, outQueue, rxLock, hostErrChan, stdout, pushed>>
    /\ UNCHANGED <<svars, tlsvars>>

\* IOHandler (end of input): `tx_err.send(Ok(()))`, then the loop goes on.
RwNotify ==
    /\ rwPc = "notify"
    /\ IF HostRxOpen
       THEN /\ Len(hostErrChan) < HostErrCapacity
            /\ hostErrChan' = Append(hostErrChan, "Ok")
            /\ rwPc' = RwAfter("Ok", "send")
       ELSE /\ rwPc' = "panicked"
            /\ UNCHANGED hostErrChan
    /\ UNCHANGED <<supPc, first, connectResult, supHeld, rwAbort, rwHeld, rwErr,
                   inPc, inAbort, inErr, outQueue, rxLock, stdout, pushed>>
    /\ UNCHANGED <<svars, tlsvars>>

\* IOHandler::send_to_server: the line is sent as a Binary frame, or the
\* sink fails.
RwSendToServer ==
    /\ rwPc = "send"
    /\ \/ /\ rwPc' = RwAfter("Ok", "lock")
          /\ UNCHANGED rwErr
       \/ /\ rwPc' = RwAfter("Send", "lock")
          /\ rwErr' = "Send"
    /\ UNCHANGED <<supPc, first, connectResult, supHeld, rwAbort, rwHeld, inPc,
                   inAbort, inErr, outQueue, rxLock, hostErrChan, stdout, pushed>>
    /\ UNCHANGED <<svars, tlsvars>>

\* IOHandler::write_stdout, inline drain: lock the receiver and pop; with
\* nothing queued the method returns Ok and the loop reads stdin again.
RwLockAndPop ==
    /\ rwPc = "lock"
    /\ rxLock = "none"
    /\ IF outQueue # <<>>
       THEN /\ rwHeld' = Head(outQueue)
            /\ outQueue' = Tail(outQueue)
            /\ rxLock' = "rw"
            /\ rwPc' = "write"
       ELSE /\ rwPc' = RwAfter("Ok", "stdin")
            /\ UNCHANGED <<rwHeld, outQueue, rxLock>>
    /\ UNCHANGED <<supPc, first, connectResult, supHeld, rwAbort, rwErr, inPc,
                   inAbort, inErr, hostErrChan, stdout, pushed>>
    /\ UNCHANGED <<svars, tlsvars>>

\* inline drain: the payload is written to stdout, or the write fails.
RwWrite ==
    /\ rwPc = "write"
    /\ \/ /\ stdout' = Append(stdout, rwHeld)
          /\ rwHeld' = 0
          /\ rwPc' = "flush"
          /\ UNCHANGED <<rwErr, rxLock>>
       \/ /\ rwPc' = RwAfter("IOWrite", "flush")
          /\ rwErr' = "IOWrite"
          /\ rwHeld' = 0
          /\ rxLock' = "none"
          /\ UNCHANGED stdout
    /\ UNCHANGED <<supPc, first, connectResult, supHeld, rwAbort, inPc, inAbort,
                   inErr, outQueue, hostErrChan, pushed>>
    /\ UNCHANGED <<svars, tlsvars>>

\* inline drain: flush, then pop the next queued frame or return Ok.
RwFlush ==
    /\ rwPc = "flush"
    /\ \/ /\ outQueue # <<>>
          /\ rwHeld' = Head(outQueue)
          /\ outQueue' = Tail(outQueue)
          /\ rwPc' = "write"
          /\ UNCHANGED <<rwErr, rxLock>>
       \/ /\ outQueue = <<>>
          /\ rwPc' = RwAfter("Ok", "stdin")
          /\ rxLock' = "none"
          /\ UNCHANGED <<rwErr, rwHeld, outQueue>>
       \/ /\ rwPc' = RwAfter("IOWrite", "stdin")
          /\ rwErr' = "IOWrite"
          /\ rxLock' = "none"
          /\ UNCHANGED <<rwHeld, outQueue>>
    /\ UNCHANGED <<supPc, first, connectResult, supHeld, rwAbort, inPc, inAbort,
                   inErr, hostErrChan, stdout, pushed>>
    /\ UNCHANGED <<svars, tlsvars>>

\* The aborted read_write task is dropped at a suspension point: its lock
\* guard is released and a frame it had popped is dropped with it.
RwCancel ==
    /\ rwAbort
    /\ rwPc \in RwLive
    /\ rwPc' = "cancelled"
    /\ rwHeld' = 0
    /\ rxLock' = IF rxLock = "rw" THEN "none" ELSE rxLock
    /\ UNCHANGED <<supPc, first, connectResult, supHeld, rwAbort, rwErr, inPc,
                   inAbort, inErr, outQueue, hostErrChan, stdout, pushed>>
    /\ UNCHANGED <<svars, tlsvars>>

\* --- supervisor: connect() and close()
\* `rx_err.recv().await.expect("channel error")` yields the first message;
\* close() starts by aborting both tasks.
SupRecv ==
    /\ supPc = "recv"
    /\ hostErrChan # <<>>
    /\ first' = Head(hostErrChan)
    /\ hostErrChan' = Tail(hostErrChan)
    /\ rwAbort' = TRUE
    /\ inAbort' = TRUE
    /\ supPc' = "join_rw"
    /\ UNCHANGED <<connectResult, supHeld, rwPc, rwHeld, rwErr, inPc, inErr,
                   outQueue, rxLock, stdout, pushed>>
    /\ UNCHANGED <<svars, tlsvars>>

\* Both senders are gone and nothing is queued: recv() yields None and
\* expect panics.
SupRecvClosed ==
    /\ supPc = "recv"
    /\ hostErrChan = <<>>
    /\ rwPc \in RwOver
    /\ inPc \in InOver
    /\ supPc' = "panicked"
    /\ UNCHANGED <<first, connectResult, supHeld, rwPc, rwAbort, rwHeld, rwErr,
                   inPc, inAbort, inErr, outQueue, rxLock, hostErrChan, stdout,
                   pushed>>
    /\ UNCHANGED <<svars, tlsvars>>

\* `for h in handles { match h.await {..} }`: first handle_std_in_out,
SupJoinRw ==
    /\ supPc = "join_rw"
    /\ rwPc \in RwOver
    /\ supPc' = "join_in"
    /\ UNCHANGED <<first, connectResult, supHeld, rwPc, rwAbort, rwHeld, rwErr,
                   inPc, inAbort, inErr, outQueue, rxLock, hostErrChan, stdout,
                   pushed>>
    /\ UNCHANGED <<svars, tlsvars>>

\* then handle_read; every join outcome is tolerated.
SupJoinIn ==
    /\ supPc = "join_in"
    /\ inPc \in InOver
    /\ supPc' = "lock"
    /\ UNCHANGED <<first, connectResult, supHeld, rwPc, rwAbort, rwHeld, rwErr,
                   inPc, inAbort, inErr, outQueue, rxLock, hostErrChan, stdout,
                   pushed>>
    /\ UNCHANGED <<svars, tlsvars>>

\* (variant: connect returns whatever close returned, in both arms)
ConnectReturnCloseOnly(f, closeRes) == closeRes

\* What connect() returns for the first message and the result of close():
\* `Ok(()) => close(..).await` and `Err(err) => { close(..).await?; Err(err) }`.
ConnectReturn(f, closeRes) ==
    IF f = "Ok" THEN closeRes
    ELSE IF closeRes # "Ok" THEN closeRes
    ELSE f

\* `let mut channel = rx_cmd_out.lock().await` and the first
\* `channel.try_recv()`: a frame to write, or the loop is over, close
\* returns Ok(()) and connect returns.
SupLockAndPop ==
    /\ supPc = "lock"
    /\ rxLock = "none"
    /\ IF outQueue # <<>>
       THEN /\ supHeld' = Head(outQueue)
            /\ outQueue' = Tail(outQueue)
            /\ rxLock' = "sup"
            /\ supPc' = "write"
            /\ UNCHANGED connectResult
       ELSE /\ supPc' = "returned"
            /\ connectResult' = ConnectReturn(first, "Ok")
            /\ UNCHANGED <<supHeld, outQueue, rxLock>>
    /\ UNCHANGED <<first, rwPc, rwAbort, rwHeld, rwErr, inPc, inAbort, inErr,
                   hostErrChan, stdout, pushed>>
    /\ UNCHANGED <<svars, tlsvars>>

\* `stdout.write(&data).await.map_err(|err| IOWrite { err })?`
SupWrite ==
    /\ supPc = "write"
    /\ \/ /\ stdout' = Append(stdout, supHeld)
          /\ supHeld' = 0
          /\ supPc' = "flush"
          /\ UNCHANGED <<connectResult, rxLock>>
       \/ /\ supPc' = "returned"
          /\ connectResult' = ConnectReturn(first, "IOWrite")
          /\ supHeld' = 0
          /\ rxLock' = "none"
          /\ UNCHANGED stdout
    /\ UNCHANGED <<first, rwPc, rwAbort, rwHeld, rwErr, inPc, inAbort, inErr,
                   outQueue, hostErrChan, pushed>>
    /\ UNCHANGED <<svars, tlsvars>>

\* `stdout.flush().await.expect("writing stdout")`, then the next
\* `channel.try_recv()`.
SupFlush ==
    /\ supPc = "flush"
    /\ \/ /\ outQueue # <<>>
          /\ supHeld' = Head(outQueue)
          /\ outQueue' = Tail(outQueue)
          /\ supPc' = "write"
          /\ UNCHANGED <<connectResult, rxLock>>
       \/ /\ outQueue = <<>>
          /\ supPc' = "returned"
          /\ connectResult' = ConnectReturn(first, "Ok")
          /\ rxLock' = "none"
          /\ UNCHANGED <<supHeld, outQueue>>
       \/ /\ supPc' = "panicked"
          /\ rxLock' = "none"
          /\ UNCHANGED <<connectResult, supHeld, outQueue>>
    /\ UNCHANGED <<first, rwPc, rwAbort, rwHeld, rwErr, inPc, inAbort, inErr,
                   hostErrChan, stdout, pushed>>
    /\ UNCHANGED <<svars, tlsvars>>

HostActions ==
    \/ InRead
    \/ InReport
    \/ InCancel
    \/ RwReadStdin
    \/ RwNotify
    \/ RwSendToServer
    \/ RwLockAndPop
    \/ RwWrite
    \/ RwFlush
    \/ RwCancel
    \/ SupRecv
    \/ SupRecvClosed
    \/ SupJoinRw
    \/ SupJoinIn
    \/ SupLockAndPop
    \/ SupWrite
    \/ SupFlush

\* The Host relay alone.
HostNext == HostActions

HostSpec == Init /\ [][HostNext]_vars

\* The tokio runtime runs every task that can make a step, and local
\* operations (channel sends, joins, stdout, the socket write) complete.
\* Nothing makes the operator type a line or the Device send a frame, so
\* the two reads (RwReadStdin, InRead) carry no fairness.
HostFairSpec ==
    /\ HostSpec
    /\ WF_vars(InReport)
    /\ WF_vars(InCancel)
    /\ WF_vars(RwNotify)
    /\ WF_vars(RwSendToServer)
    /\ WF_vars(RwLockAndPop)
    /\ WF_vars(RwWrite)
    /\ WF_vars(RwFlush)
    /\ WF_vars(RwCancel)
    /\ WF_vars(SupRecv)
    /\ WF_vars(SupRecvClosed)
    /\ WF_vars(SupJoinRw)
    /\ WF_vars(SupJoinIn)
    /\ WF_vars(SupLockAndPop)
    /\ WF_vars(SupWrite)
    /\ WF_vars(SupFlush)

\* ------------------------------------------------------ client_tls_config
\* Items of a PEM file (rustls_pemfile::Item).  An X509Certificate item is
\* whatever stands between the CERTIFICATE markers: RootCertStore::add
\* accepts it only when it parses as a certificate ("good").
PemItems ==
    { [kind |-> "X509Certificate", der |-> "good"],
      [kind |-> "X509Certificate", der |-> "bad"],
      [kind |-> "RSAKey", der |-> "good"],
      [kind |-> "PKCS8Key", der |-> "good"],
      [kind |-> "ECKey", der |-> "good"] }

\* Largest number of items in a CA bundle.
MaxBundleItems == 3

RECURSIVE SeqsUpTo(_, _)
SeqsUpTo(S, n) ==
    IF n = 0 THEN { <<>> }
    ELSE SeqsUpTo(S, n - 1)
           \cup { Append(q, x) : q \in { r \in SeqsUpTo(S, n - 1) : Len(r) = n - 1 },
                                 x \in S }

\* The arguments of client_tls_config: None, a file that cannot be opened
\* or read, or a file with its items.
CaCertFiles ==
    { NoCaCertFile,
      [given |-> TRUE, read |-> "open_err", items |-> <<>>],
      [given |-> TRUE, read |-> "read_err", items |-> <<>>] }
      \cup [given : {TRUE}, read : {"ok"}, items : SeqsUpTo(PemItems, MaxBundleItems)]

ConfigInit ==
    /\ ServerInit /\ HostInit
    /\ caCertFile \in CaCertFiles
    /\ ConfigStart
    /\ ServiceStart

\* `if let Some(ca_cert_file)`: File::open and read_all, each mapped to
\* DeviceError::ReadFile with `?`.
ConfigOpen ==
    /\ cfgPc = "start"
    /\ IF ~caCertFile.given
       THEN cfgPc' = "roots" /\ UNCHANGED <<cfgPos, cfgResult>>
       ELSE IF caCertFile.read # "ok"
       THEN cfgPc' = "done" /\ cfgResult' = "ReadFile" /\ UNCHANGED cfgPos
       ELSE cfgPc' = "loop" /\ cfgPos' = 1 /\ UNCHANGED cfgResult
    /\ UNCHANGED <<caCertFile, rootCerts>>
    /\ UNCHANGED <<svars, hvars, svcvars>>

\* The match on one item: a certificate is added to root_certs (`expect`
\* panics when add refuses it), any other item returns WrongItem.
MatchItem(item) ==
    IF item.kind = "X509Certificate"
    THEN IF item.der = "good" THEN "added" ELSE "panic"
    ELSE "WrongItem"

\* One iteration of `for item in read_all(..)?`.
ConfigItem ==
    /\ cfgPc = "loop"
    /\ IF cfgPos > Len(caCertFile.items)
       THEN cfgPc' = "roots" /\ UNCHANGED <<cfgPos, rootCerts, cfgResult>>
       ELSE LET m == MatchItem(caCertFile.items[cfgPos]) IN
            IF m = "added"
            THEN /\ rootCerts' = Append(rootCerts, cfgPos)
                 /\ cfgPos' = cfgPos + 1
                 /\ UNCHANGED <<cfgPc, cfgResult>>
            ELSE IF m = "panic"
            THEN cfgPc' = "panicked" /\ UNCHANGED <<cfgPos, rootCerts, cfgResult>>
            ELSE cfgPc' = "done" /\ cfgResult' = m /\ UNCHANGED <<cfgPos, rootCerts>>
    /\ UNCHANGED caCertFile
    /\ UNCHANGED <<svars, hvars, svcvars>>

\* add_server_trust_anchors(webpki_roots::TLS_SERVER_ROOTS), the
\* ClientConfig builder and `Ok(Connector::Rustls(..))`.
ConfigFinish ==
    /\ cfgPc = "roots"
    /\ rootCerts' = Append(rootCerts, "webpki")
    /\ cfgResult' = "Ok"
    /\ cfgPc' = "done"
    /\ UNCHANGED <<caCertFile, cfgPos>>
    /\ UNCHANGED <<svars, hvars, svcvars>>

ConfigNext == ConfigOpen \/ ConfigItem \/ ConfigFinish

\* client_tls_config alone, over every argument.
ConfigSpec == ConfigInit /\ [][ConfigNext]_vars

\* -------------------------------------------------------------- TlsService
\* poll_ready: `self.service.poll_ready(cx)`, Ready(Ok) or Pending.
ServicePollReady ==
    /\ ~serviceReady
    /\ \E r \in Requests : tlsReq[r].pc = "idle"
    /\ serviceReady' = TRUE
    /\ UNCHANGED <<tlsReq, service, innerCalls>>
    /\ UNCHANGED <<svars, hvars, cfgvars>>

\* call(req): `clone = self.service.clone()`, then
\* `inner = mem::replace(&mut self.service, clone)`: the future owns the
\* service that was ready and self.service is a fresh clone.  Nothing of
\* the async block runs before the future is polled.
ServiceCall(r) ==
    /\ tlsReq[r].pc = "idle"
    /\ serviceReady
    /\ tlsReq' = [tlsReq EXCEPT ![r].pc = "accept", ![r].inner = service]
    /\ service' = service + 1
    /\ serviceReady' = FALSE
    /\ UNCHANGED innerCalls
    /\ UNCHANGED <<svars, hvars, cfgvars>>

\* (variant: the handshake error is ignored and the raw stream passed on)
AfterAcceptUnchecked(hs) ==
    [callInner |-> TRUE, stream |-> IF hs = "ok" THEN "tls" ELSE "raw",
     result |-> "none"]

\* `acceptor.accept(req).await.map_err(HostError::AcceptTls)?` followed by
\* `inner.call(stream)`: what the future does once the handshake is over.
AfterAccept(hs) ==
    IF hs = "ok"
    THEN [callInner |-> TRUE, stream |-> "tls", result |-> "none"]
    ELSE [callInner |-> FALSE, stream |-> "none", result |-> "AcceptTls"]

\* The TLS handshake on the raw stream of request r completes.
ServiceAccept(r) ==
    /\ tlsReq[r].pc = "accept"
    /\ \E hs \in {"ok", "err"} :
         LET a == AfterAccept(hs) IN
         /\ tlsReq' = [tlsReq EXCEPT ![r].hs = hs,
                                     ![r].pc = IF a.callInner THEN "inner" ELSE "done",
                                     ![r].result = a.result]
         /\ innerCalls' = IF a.callInner
                          THEN Append(innerCalls,
                                      [r |-> r, svc |-> tlsReq[r].inner, stream |-> a.stream])
                          ELSE innerCalls
    /\ UNCHANGED <<service, serviceReady>>
    /\ UNCHANGED <<svars, hvars, cfgvars>>

\* `inner.call(stream).await.map_err(HostError::from)`: the inner future
\* resolves with a response or with the inner service's error.
ServiceInnerDone(r) ==
    /\ tlsReq[r].pc = "inner"
    /\ \E res \in {"Ok", "Inner"} :
         tlsReq' = [tlsReq EXCEPT ![r].pc = "done", ![r].result = res]
    /\ UNCHANGED <<service, serviceReady, innerCalls>>
    /\ UNCHANGED <<svars, hvars, cfgvars>>

ServiceNext ==
    \/ ServicePollReady
    \/ \E r \in Requests : ServiceCall(r)
    \/ \E r \in Requests : ServiceAccept(r)
    \/ \E r \in Requests : ServiceInnerDone(r)

\* TlsService alone.
ServiceSpec == Init /\ [][ServiceNext]_vars

\* ------------------------------------------------------------------ claims
Benign == {"CloseWebsocket", "TransportReset"}
InvalidBinary(item) == item.kind = "Binary" /\ ~IsUtf8(item.data)

\* C1: when listen has returned an error, every connection task that was
\* spawned and has not finished has been aborted.
C1_CascadeAbortsEveryLiveTask ==
    (listenPc = "returned" /\ ~listenResult.ok)
        => \A c \in ConnIds : conn[c].pc \in ConnLive => conn[c].abort

\* C2: when listen has returned after an error was received, it returned
\* Err of the first error the channel accepted; it returns Ok(()) only
\* when no error was ever sent.
C2_ListenReturnsFirstError ==
    listenPc = "returned" =>
        /\ sentLog # <<>> => listenResult = [ok |-> FALSE, err |-> sentLog[1]]
        /\ sentLog = <<>> => listenResult = [ok |-> TRUE, err |-> NoErr]

C2_Witness ==
    /\ listenPc = "returned"
    /\ Len(sentLog) >= 2
    /\ sentLog[1] # sentLog[2]
    /\ listenResult.err = sentLog[1]

\* C4: a connection that ended with a Close frame or with
\* ResetWithoutClosingHandshake has terminated without sending on the
\* error channel, and the listener shuts down only for a non-benign error
\* that some connection did send.
C4_BenignNotEscalated ==
    /\ \A c \in ConnIds :
          conn[c].res \in Benign =>
            /\ conn[c].pc = "done"
            /\ \A i \in 1..Len(sentLog) : sentLog[i].c # c
    /\ \A i \in 1..Len(sentLog) : sentLog[i].e \notin Benign
    /\ (listenPc # "recv" \/ acceptorAbort) =>
          \/ /\ sentLog # <<>> /\ err = sentLog[1] /\ err.e \notin Benign
          \/ /\ sentLog = <<>> /\ ~acceptorAbort /\ AllSendersDropped

C4_Witness ==
    /\ \E c, d \in ConnIds :
          /\ conn[c].res = "CloseWebsocket" /\ conn[c].pc = "done"
          /\ conn[d].res = "TransportReset" /\ conn[d].pc = "done"
    /\ listenPc = "recv"
    /\ acceptorPc = "accept"
    /\ ~acceptorAbort

\* C5: a failed execution yields one outbound frame starting with
\* "Shell error:", is never turned into a pipeline error, and the
\* connection goes back to reading: when the pipeline waits for the next
\* frame every executed command has been answered.
C5_ShellFailureRecovered ==
    \A c \in ConnIds :
        /\ conn[c].res # "ShellError"
        /\ Len(conn[c].sent) <= Len(conn[c].execLog)
        /\ Len(conn[c].execLog) <= Len(conn[c].sent) + 1
        /\ conn[c].pc = "read" => Len(conn[c].sent) = Len(conn[c].execLog)
        /\ \A k \in 1..Len(conn[c].execLog) :
              ~conn[c].execLog[k].r.ok =>
                /\ k <= Len(conn[c].sent) =>
                      StartsWith(conn[c].sent[k], ShellErrorPrefix)
                /\ k > Len(conn[c].sent) =>
                      \/ conn[c].pc = "send" /\ StartsWith(conn[c].out, ShellErrorPrefix)
                      \/ conn[c].pc \in ConnOver \cup {"report"}
        /\ \A i \in 1..Len(sentLog) : sentLog[i].e # "ShellError"

C5_Witness ==
    \E c \in ConnIds :
        /\ Len(conn[c].sent) = 2
        /\ ~conn[c].execLog[1].r.ok
        /\ StartsWith(conn[c].sent[1], ShellErrorPrefix)
        /\ conn[c].pc = "read"
        /\ conn[c].res = "none"

\* C6: a Binary frame that is not UTF-8 is the last frame the pipeline
\* reads; the pipeline ends with Utf8Error; only the frames before it were
\* executed and answered.
C6_InvalidUtf8EndsPipeline ==
    \A c \in ConnIds :
        \A k \in 1..Len(conn[c].inLog) :
            InvalidBinary(conn[c].inLog[k]) =>
                /\ k = Len(conn[c].inLog)
                /\ conn[c].res = "Utf8Error"
                /\ conn[c].pc \in ConnOver \cup {"report"}
                /\ Len(conn[c].execLog) = k - 1
                /\ Len(conn[c].sent) = k - 1

C6_Witness ==
    \E c \in ConnIds :
        /\ Len(conn[c].inLog) = 2
        /\ InvalidBinary(conn[c].inLog[2])
        /\ Len(conn[c].sent) = 1
        /\ conn[c].pc = "done"
        /\ \E i \in 1..Len(sentLog) : sentLog[i] = [c |-> c, e |-> "Utf8Error"]

\* C7: the k-th outbound frame of a connection is the output of execute on
\* the payload of its k-th inbound frame, whenever that execution
\* succeeded; commands and frames stay in step.
C7_RelayFidelity ==
    \A c \in ConnIds :
        /\ Len(conn[c].sent) <= Len(conn[c].execLog)
        /\ Len(conn[c].execLog) <= Len(conn[c].inLog)
        /\ conn[c].pc = "read" => Len(conn[c].sent) = Len(conn[c].inLog)
        /\ \A k \in 1..Len(conn[c].execLog) :
              /\ conn[c].execLog[k].cmd = conn[c].inLog[k].data
              /\ conn[c].execLog[k].r \in Execute(conn[c].inLog[k].data)
        /\ \A k \in 1..Len(conn[c].sent) :
              conn[c].execLog[k].r.ok =>
                  conn[c].sent[k] = conn[c].execLog[k].r.s

C7_Witness ==
    \E c, d \in ConnIds :
        /\ c # d
        /\ Len(conn[c].sent) = 1 /\ conn[c].execLog[1].r.ok
        /\ Len(conn[d].sent) = 1 /\ ~conn[d].execLog[1].r.ok

\* C8: a failed handshake (TLS or WebSocket) leaves the accept loop alive,
\* and the listener never shuts the accept loop down because of one.
C8_HandshakeFailureKeepsAcceptor ==
    /\ handshakeFailed # {} => acceptorPc # "panicked"
    /\ acceptorAbort => err.e # "WebSocketHandshake"


InSeq(x, q) == \E i \in 1..Len(q) : q[i] = x

\* C3: no-loss drain: when connect() has returned, every frame the intake
\* task pushed onto the Output Queue has been written to stdout.
C3_NoLossDrain ==
    supPc = "returned" => \A k \in 1..Len(pushed) : InSeq(pushed[k], stdout)

\* C9: once the intake task's stream has ended without a transport error,
\* connect() eventually returns.
C9_RemoteClosureShutsDown ==
    (inPc = "ended" /\ inErr = "none") ~> (supPc = "returned")

\* C10: once read_write has failed with an error, while nothing else has
\* been reported, connect() eventually returns that error.
C10_ReadWriteErrorIsFatal ==
    (rwPc = "failed" /\ supPc = "recv" /\ hostErrChan = <<>> /\ inPc = "read")
        ~> (supPc = "returned" /\ connectResult = rwErr)

\* C11: when connect() has returned, it returned Ok(()) exactly when the
\* first message on the supervisor channel was Ok(()) and the final drain
\* did not fail; a first message Err never yields Ok; and unless the drain
\* itself failed, both tasks were joined and the queue was drained empty
\* before the return.
C11_ExitStatus ==
    supPc = "returned" =>
        /\ first \in {"Ok", "TungsteniteReadData"}
        /\ connectResult \in {first, "IOWrite"}
        /\ (connectResult = "Ok") <=> (first = "Ok" /\ connectResult # "IOWrite")
        /\ first # "Ok" => connectResult # "Ok"
        /\ rwPc \in RwOver /\ inPc \in InOver
        /\ connectResult # "IOWrite" => (outQueue = <<>> /\ supHeld = 0)

C11_Witness ==
    /\ supPc = "returned"
    /\ first = "TungsteniteReadData"
    /\ connectResult = "TungsteniteReadData"
    /\ Len(pushed) = MaxHostFrames
    /\ stdout = pushed
    /\ rwPc = "cancelled"

\* C12: what has been written to standard output is always a prefix of
\* the frames the intake task received, in the same order.
C12_DisplayOrderPrefix ==
    /\ Len(stdout) <= Len(pushed)
    /\ stdout = SubSeq(pushed, 1, Len(stdout))

\* C13: once client_tls_config is over with a readable CA bundle, it has
\* returned WrongItem when some item is not an X509 certificate and Ok
\* when every item is one; with no CA bundle it has returned Ok and the
\* trust store holds the webpki roots only.
C13_ClientTlsConfig ==
    cfgPc \in {"done", "panicked"} =>
        LET items == caCertFile.items
            allCerts == \A i \in 1..Len(items) : items[i].kind = "X509Certificate"
        IN /\ (caCertFile.given /\ caCertFile.read = "ok" /\ ~allCerts)
                  => cfgResult = "WrongItem"
           /\ (caCertFile.given /\ caCertFile.read = "ok" /\ allCerts)
                  => cfgResult = "Ok"
           /\ ~caCertFile.given
                  => (cfgResult = "Ok" /\ rootCerts = <<"webpki">>)

\* C14: a connection task is aborted only by the sweep, after the accept
\* loop was aborted and its join completed (cancelled, ended or panicked
\* alike); from the sweep on no connection task is spawned and the
\* registry does not grow; and terminate returns Ok, so that listen
\* returns the error it received.
C14_ShutdownOrdering ==
    [][ /\ \A c \in ConnIds :
              (conn'[c].abort /\ ~conn[c].abort) =>
                  /\ listenPc = "sweep"
                  /\ acceptorAbort
                  /\ acceptorPc \in AcceptorOver
        /\ listenPc \in {"sweep", "returned"} =>
              /\ handles' = handles
              /\ \A c \in ConnIds : conn[c].pc = "idle" => conn'[c].pc = "idle"
        /\ (listenPc = "sweep" /\ listenPc' # "sweep") =>
              /\ listenPc' = "returned"
              /\ TerminateResult = "Ok"
              /\ listenResult' = [ok |-> FALSE, err |-> err]
      ]_vars

C14_Witness ==
    /\ listenPc = "returned"
    /\ acceptorPc = "cancelled"
    /\ Len(handles) = 2
    /\ \E c \in ConnIds : conn[c].abort /\ conn[c].pc \in ConnLive

\* C15: while the final drain of close() runs, both tasks have terminated
\* and the read_write task does not hold the queue's lock; and the drain is
\* over only with the queue empty.
C15_DrainAfterJoin ==
    /\ supPc \in {"lock", "write", "flush"} =>
          /\ rwPc \in RwOver
          /\ inPc \in InOver
          /\ rxLock # "rw"
    /\ supPc = "returned" => outQueue = <<>>

\* C16: on every connection at most one command is in flight: a command
\* is being executed only when every earlier output has been handed to the
\* sink, a frame is read only when nothing is being executed or waiting
\* for the sink, and the k-th outbound frame is the rendered outcome of
\* the k-th inbound frame, which is a Binary command frame.
C16_OneInFlightInOrder ==
    \A c \in ConnIds :
        LET r == conn[c] IN
        /\ r.pc = "exec" =>
              /\ Len(r.execLog) = Len(r.sent)
              /\ Len(r.inLog) = Len(r.sent) + 1
              /\ r.cmd = r.inLog[Len(r.inLog)].data
              /\ r.out = <<>>
        /\ r.pc = "send" =>
              /\ Len(r.execLog) = Len(r.sent) + 1
              /\ Len(r.inLog) = Len(r.execLog)
              /\ r.out = RenderOutcome(r.execLog[Len(r.execLog)].r)
              /\ r.cmd = <<>>
        /\ r.pc = "read" =>
              /\ Len(r.inLog) = Len(r.sent)
              /\ Len(r.execLog) = Len(r.sent)
              /\ r.cmd = <<>> /\ r.out = <<>>
        /\ Len(r.sent) <= Len(r.execLog) /\ Len(r.execLog) <= Len(r.sent) + 1
        /\ \A k \in 1..Len(r.sent) :
              /\ r.inLog[k].kind = "Binary"
              /\ r.execLog[k].cmd = r.inLog[k].data
              /\ r.sent[k] = RenderOutcome(r.execLog[k].r)

C16_Witness ==
    \E c \in ConnIds :
        /\ Len(conn[c].sent) = 2
        /\ conn[c].sent[1] # conn[c].sent[2]
        /\ conn[c].execLog[1].r.ok /\ ~conn[c].execLog[2].r.ok
        /\ conn[c].pc = "read"

\* C17: a task suspended on an I/O operation holds no lock.  The registry
\* lock of the Device-server is taken and released inside AcceptorPush and
\* TerminateSweep, so no state has it held; on the Host, the supervisor
\* suspended in a write or a flush of standard output does not hold the
\* lock of the Output Queue receiver.
C17_NoLockAcrossIo ==
    supPc \in {"write", "flush"} => rxLock # "sup"

\* C18: the inner service is called only for a request whose TLS
\* handshake succeeded, once, with the TLS stream; a request whose
\* handshake failed resolves to AcceptTls with no inner call; and
\* self.service is the clone left by the latest call(), whatever the
\* handshakes did.
C18_TlsGating ==
    /\ \A i \in 1..Len(innerCalls) :
          /\ innerCalls[i].stream = "tls"
          /\ tlsReq[innerCalls[i].r].hs = "ok"
          /\ innerCalls[i].svc = tlsReq[innerCalls[i].r].inner
          /\ \A j \in 1..Len(innerCalls) : innerCalls[j].r = innerCalls[i].r => j = i
    /\ \A r \in Requests :
          /\ tlsReq[r].hs = "err" =>
                /\ tlsReq[r].pc = "done"
                /\ tlsReq[r].result = "AcceptTls"
                /\ \A i \in 1..Len(innerCalls) : innerCalls[i].r # r
          /\ tlsReq[r].pc \in {"idle", "accept"} =>
                \A i \in 1..Len(innerCalls) : innerCalls[i].r # r
          /\ tlsReq[r].result = "AcceptTls" => tlsReq[r].hs = "err"
    /\ service = Cardinality({ r \in Requests : tlsReq[r].pc # "idle" })

C18_Witness ==
    \E r, q \in Requests :
        /\ tlsReq[r].hs = "err" /\ tlsReq[r].result = "AcceptTls"
        /\ tlsReq[q].inner > tlsReq[r].inner
        /\ tlsReq[q].hs = "ok" /\ tlsReq[q].result = "Ok"
        /\ innerCalls = << [r |-> q, svc |-> tlsReq[q].inner, stream |-> "tls"] >>

StreamOutcomes == {"ErrReset", "ErrIo", "End"}

\* C19: a frame that is neither Binary nor Close is the last item its
\* connection reads: the pipeline ends with ReadCommand, nothing is
\* executed or sent for it, and the task sends the error on the error
\* channel (unless the listener has already shut down: the task is then
\* cancelled, or its send finds the receiver gone).
C19_UnexpectedFrameFatal ==
    \A c \in ConnIds :
        \A k \in 1..Len(conn[c].inLog) :
            conn[c].inLog[k].kind \notin {"Binary", "Close"} \cup StreamOutcomes =>
                /\ k = Len(conn[c].inLog)
                /\ conn[c].res = "ReadCommand"
                /\ Len(conn[c].execLog) = k - 1
                /\ Len(conn[c].sent) = k - 1
                /\ \/ conn[c].pc = "report"
                   \/ /\ conn[c].pc = "done"
                      /\ \E i \in 1..Len(sentLog) :
                            sentLog[i] = [c |-> c, e |-> "ReadCommand"]
                   \/ conn[c].pc = "cancelled" /\ listenPc = "returned"
                   \/ conn[c].pc = "panicked" /\ ~rxOpen

C19_Witness ==
    \E c \in ConnIds :
        /\ Len(conn[c].inLog) = 2
        /\ conn[c].inLog[2].kind = "Ping"
        /\ Len(conn[c].sent) = 1
        /\ conn[c].pc = "done"
        /\ listenPc = "returned"
        /\ listenResult = [ok |-> FALSE, err |-> [c |-> c, e |-> "ReadCommand"]]

\* C20: listen has returned Ok(()) only if no error was ever sent on the
\* error channel, the accept loop has ended by itself (accept failure or
\* panic) and every spawned connection task has finished without a fatal
\* error; while the accept loop is alive and no error has been sent,
\* listen is still waiting in recv.
C20_ListenOkOnlyWhenChannelClosed ==
    /\ (listenPc = "returned" /\ listenResult.ok) =>
          /\ sentLog = <<>> /\ errChan = <<>>
          /\ ~acceptorAbort
          /\ acceptorPc \in {"ended", "panicked"}
          /\ \A c \in ConnIds :
                \/ conn[c].pc = "idle"
                \/ /\ conn[c].pc = "done"
                   /\ conn[c].res \in {"Ok"} \cup Benign
    /\ (acceptorPc \in AcceptorLive /\ sentLog = <<>>) => listenPc = "recv"

C20_Witness ==
    /\ listenPc = "returned"
    /\ listenResult.ok
    /\ acceptorPc = "ended"
    /\ \E c, d \in ConnIds :
          /\ conn[c].pc = "done" /\ conn[c].res = "Ok"
          /\ conn[d].pc = "done" /\ conn[d].res = "CloseWebsocket"

\* C21: no connection task ever panics in `tx_err.send(err).await.expect`:
\* a task that reports an error never finds the receiver dropped.
C21_ReportNeverPanics ==
    \A c \in ConnIds : conn[c].pc # "panicked"

\* C22: the supervisor's `rx_err.recv().await.expect("channel error")`
\* never panics (it never finds both senders dropped with nothing sent),
\* and no task's send on tx_err finds the receiver dropped.
C22_HostChannelNeverPanics ==
    /\ ~(supPc = "panicked" /\ first = "none")
    /\ inPc # "panicked"
    /\ rwPc # "panicked"

====
